---- MODULE Spec2Model ----
(***************************************************************************)
(* Model of user_creation.py: the batch loop of main() over the machines   *)
(* of the credential YAML, the vendor dispatch of create_accounts() and    *)
(* modify_accounts(), the three provisioning strategies (generic Redfish, *)
(* HP iLO, Dell iDRAC) and print_response_messages().                      *)
(*                                                                         *)
(* Python strings the code searches or slices (manufacturer, role          *)
(* "@odata.id", firmware version) are sequences of one-character strings.  *)
(* The BMC behind each machine is the environment: what it answers is      *)
(* drawn from small sets when the request is issued.                       *)
(***************************************************************************)
EXTENDS Integers, Sequences, FiniteSets, TLC

VARIABLES
    info_dict,    \* the credential YAML: machine -> entry
    modify,       \* args.modify
    pc,           \* where main() is: validate, login, system, provision,
                  \* print, done, aborted
    machine,      \* position of the loop in info_dict
    system_json,  \* the system resource of the current machine
    new_account,  \* what create_accounts() / modify_accounts() returned
    bmc,          \* what the BMC of the current machine answered
    reqs,         \* requests issued to the current machine, in order
    issued,       \* machines a request was issued to
    logins,       \* machine -> sessions opened
    logouts,      \* machine -> sessions closed
    reports,      \* the lines printed, in order
    exc           \* the exception that left main(), "" when none

vars == <<info_dict, modify, pc, machine, system_json, new_account, bmc,
          reqs, issued, logins, logouts, reports, exc>>

----------------------------------------------------------------------------
(* Bounds *)

\* number of machines in the credential YAML
NumMachines == 2
\* largest number of members in an account / slot collection
MaxSlots == 3

----------------------------------------------------------------------------
(* Python string operations, on sequences of characters *)

UpperCase == <<"A","B","C","D","E","F","G","H","I","J","K","L","M",
               "N","O","P","Q","R","S","T","U","V","W","X","Y","Z">>
LowerCase == <<"a","b","c","d","e","f","g","h","i","j","k","l","m",
               "n","o","p","q","r","s","t","u","v","w","x","y","z">>

LowerChar(c) ==
    IF \E i \in 1..26 : UpperCase[i] = c
    THEN LowerCase[CHOOSE i \in 1..26 : UpperCase[i] = c]
    ELSE c

\* str.lower()
lower(s) == [i \in 1..Len(s) |-> LowerChar(s[i])]

\* sub in s
Contains(sub, s) ==
    \E i \in 0..(Len(s) - Len(sub)) : SubSeq(s, i + 1, i + Len(sub)) = sub

\* s.rfind(c): 0-based index of the last occurrence, -1 when there is none
rfind(s, c) ==
    IF \E i \in 1..Len(s) : s[i] = c
    THEN (CHOOSE i \in 1..Len(s) :
            s[i] = c /\ \A j \in (i + 1)..Len(s) : s[j] # c) - 1
    ELSE -1

\* s[k:] for a 0-based k >= 0
SliceFrom(s, k) == SubSeq(s, k + 1, Len(s))

Digits == <<"0","1","2","3","4","5","6","7","8","9">>
IsDigit(c) == \E i \in 1..10 : Digits[i] = c
\* int(c) of a one-character string
DigitVal(c) == (CHOOSE i \in 1..10 : Digits[i] = c) - 1

----------------------------------------------------------------------------
(* The credential YAML *)

Machines == 1..NumMachines

RequiredKeys == {"admin_user", "admin_password", "new_user", "new_password"}

\* the keys an entry of the YAML may carry
KeySets == { RequiredKeys, RequiredKeys \ {"new_password"},
             RequiredKeys \ {"admin_user"} }

\* the account to create or modify; csv_to_yaml.py writes the same new_user
\* and new_password into the entry of every machine
NewUser == "monitor"
NewPassword == "pw"

Descriptors ==
    [Machines -> [keys : KeySets, new_user : {NewUser},
                  new_password : {NewPassword}]]

\* the check of main() on the keys of one machine
WellFormed(entry) ==
    ~ ( \/ "admin_user" \notin entry.keys
        \/ "admin_password" \notin entry.keys
        \/ "new_user" \notin entry.keys
        \/ "new_password" \notin entry.keys )

----------------------------------------------------------------------------
(* What a BMC may answer *)

\* outcomes of redfish_client(...) + login(auth="session")
LoginFailures == {"ServerDownOrUnreachableError", "RetriesExhaustedError",
                  "InvalidCredentialsError", "SessionCreationError"}

Manufacturers ==
    { <<"H","P","E">>,
      <<"D","e","l","l"," ","I","n","c",".">>,
      <<"L","e","n","o","v","o">>,
      <<"h","p","D","E","L","L">> }

ManagerUrl == "/redfish/v1/Managers/1"

\* the system resource: Manufacturer may be absent; the manager link is under
\* "Links" (Redfish), under "links" (legacy iLO) or absent; the linked url may
\* be the empty string (the link is read on the HP path only)
NoSystem == [hasManufacturer |-> FALSE, Manufacturer |-> <<>>,
             link |-> "none", manager_url |-> ""]

SystemJsons ==
    {NoSystem}
    \cup [hasManufacturer : {TRUE}, Manufacturer : Manufacturers,
          link : {"Links"}, manager_url : {ManagerUrl}]
    \cup [hasManufacturer : {TRUE}, Manufacturer : {<<"H","P","E">>},
          link : {"links"}, manager_url : {ManagerUrl}]
    \cup [hasManufacturer : {TRUE}, Manufacturer : {<<"H","P","E">>},
          link : {"Links"}, manager_url : {""}]
    \cup [hasManufacturer : {TRUE}, Manufacturer : {<<"H","P","E">>},
          link : {"none"}, manager_url : {""}]

\* outcomes of the two reads of main(): the Systems collection may have no
\* member, and a read may raise (connection lost)
SystemReads == {"ok", "no_members", "raises"}

\* FirmwareVersion of the manager resource
FirmwareVersions ==
    { <<"i","L","O"," ","3">>, <<"i","L","O"," ","4">>, <<"i","L","O"," ","5">>,
      <<"i","L","O"," ","6">>, <<"i","L","O"," ","7">>, <<"i","L","O","-","x">>,
      <<"i","L","O">> }

NoManager == [hasFirmwareVersion |-> FALSE, FirmwareVersion |-> <<>>]

ManagerJsons ==
    {NoManager}
    \cup [hasFirmwareVersion : {TRUE}, FirmwareVersion : FirmwareVersions]

\* "@odata.id" of the members of /redfish/v1/AccountService/Roles
RoleAdmin == <<"/","R","o","l","e","s","/","A","d","m","i","n">>
RoleReadOnly == <<"/","R","o","l","e","s","/","R","e","a","d","O","n","l","y">>
RoleReadOnlyUser ==
    <<"/","R","o","l","e","s","/","R","E","A","D","O","N","L","Y","_","U">>

RoleMembers ==
    { <<>>, <<RoleAdmin>>, <<RoleAdmin, RoleReadOnly>>,
      <<RoleReadOnly, RoleAdmin>>, <<RoleReadOnly, RoleReadOnlyUser>>,
      <<RoleReadOnlyUser, RoleAdmin, RoleReadOnly>> }

NoRoles == [hasMembers |-> FALSE, Members |-> <<>>]

RoleCollections == {NoRoles} \cup [hasMembers : {TRUE}, Members : RoleMembers]

\* account tables: the member at position i has Id SlotIds[i]
SlotIds == <<"1", "2", "3", "4", "5">>
UserNames == {"", "root", "monitor"}

NoAccounts == [hasMembers |-> FALSE, Members |-> <<>>]

AccountTables ==
    {NoAccounts}
    \cup [hasMembers : {TRUE},
          Members : UNION { [1..n -> UserNames] : n \in 0..MaxSlots }]

\* the text redfish.messages.get_error_messages() extracts from a response,
\* as a sequence of messages
Sentinel == "The request completed successfully."
ErrorTexts ==
    { <<>>, <<Sentinel>>, <<"Base.1.0.PropertyValueNotInList">>,
      <<"Base.1.0.PropertyValueNotInList", Sentinel>> }

\* a write either raises (timeout, connection lost) or returns a response
WriteRaises == [raises |-> TRUE, error_messages |-> <<>>]

WriteOutcomes == {WriteRaises} \cup [raises : {FALSE}, error_messages : ErrorTexts]

\* one BMC: the answers to the resource a provisioning path reads first (the
\* role collection, an account table, the manager resource, or nothing before
\* its write) and to its write; a path reads one of them, the others stay at
\* their empty value
EmptyBMC == [roles |-> NoRoles, accounts |-> NoAccounts, manager |-> NoManager,
             write |-> WriteRaises]

Serving(path) ==
    CASE path = "Roles" ->
           [roles : RoleCollections, accounts : {NoAccounts},
            manager : {NoManager}, write : WriteOutcomes]
      [] path \in {"Accounts", "DellAccounts"} ->
           [roles : {NoRoles}, accounts : AccountTables,
            manager : {NoManager}, write : WriteOutcomes]
      [] path = "Manager" ->
           [roles : {NoRoles}, accounts : {NoAccounts},
            manager : ManagerJsons, write : WriteOutcomes]
      [] OTHER ->
           [roles : {NoRoles}, accounts : {NoAccounts},
            manager : {NoManager}, write : WriteOutcomes]

----------------------------------------------------------------------------
(* Requests, responses and the result of a Python function *)

ReadOnly == <<"R","e","a","d","O","n","l","y">>
\* the timeout argument of a request: none, or timeout=20
LongTimeout == 20
DefaultTimeout == {}
ExtendedTimeout == {LongTimeout}

\* a request body: the keys it carries and their values
NoBody == [keys |-> {}, UserName |-> "", Password |-> "", RoleId |-> <<>>,
           LoginName |-> ""]

Get(path, id) ==
    [verb |-> "GET", path |-> path, id |-> id, body |-> NoBody,
     timeout |-> DefaultTimeout]
Post(path, body, timeout) ==
    [verb |-> "POST", path |-> path, id |-> "", body |-> body,
     timeout |-> timeout]
\* Patch sent as a create request
PatchMutant(path, id, body, timeout) ==
    [verb |-> "POST", path |-> path, id |-> id, body |-> body,
     timeout |-> timeout]

Patch(path, id, body, timeout) ==
    [verb |-> "PATCH", path |-> path, id |-> id, body |-> body,
     timeout |-> timeout]

\* what a function returns or raises
None == [kind |-> "None", exc |-> "", error_messages |-> <<>>]
Raise(e) == [kind |-> "raise", exc |-> e, error_messages |-> <<>>]
Response(w) == [kind |-> "response", exc |-> "",
                error_messages |-> w.error_messages]

\* redfish_obj.post / redfish_obj.patch
Send(w) == IF w.raises THEN Raise("TransportError") ELSE Response(w)

\* requests issued, lines printed, value returned or exception raised
Result(rq, out, ret) == [reqs |-> rq, out |-> out, ret |-> ret]

----------------------------------------------------------------------------
(* Scans of a collection *)

\* ScanUser without the return at the first match: the last match wins
ScanUserMutant(members, i, username) ==
    IF \E j \in i..Len(members) : members[j] = username
    THEN LET k == CHOOSE j \in i..Len(members) :
                      /\ members[j] = username
                      /\ \A l \in (j + 1)..Len(members) : members[l] # username
         IN  [found |-> TRUE, id |-> SlotIds[k], visited |-> Len(members)]
    ELSE [found |-> FALSE, id |-> "", visited |-> Len(members)]

\* for user in Members: if UserName == username: return Id
RECURSIVE ScanUser(_, _, _)
ScanUser(members, i, username) ==
    IF i > Len(members)
    THEN [found |-> FALSE, id |-> "", visited |-> Len(members)]
    ELSE IF members[i] = username
         THEN [found |-> TRUE, id |-> SlotIds[i], visited |-> i]
         ELSE ScanUser(members, i + 1, username)

\* IsFree without the test of the reserved slot
IsFreeMutant(userName, id) == userName = ""

\* if not account_json["UserName"] and account_json["Id"] != "1"
IsFree(userName, id) == userName = "" /\ id # "1"

\* for account in Members: if free: available_id = Id; break
RECURSIVE ScanFree(_, _)
ScanFree(members, i) ==
    IF i > Len(members)
    THEN [bound |-> FALSE, available_id |-> "", visited |-> Len(members)]
    ELSE IF IsFree(members[i], SlotIds[i])
         THEN [bound |-> TRUE, available_id |-> SlotIds[i], visited |-> i]
         ELSE ScanFree(members, i + 1)

\* "readonly" in role["@odata.id"].lower()
IsReadOnlyRole(odata_id) ==
    Contains(<<"r","e","a","d","o","n","l","y">>, lower(odata_id))

\* ScanRoles with a break at the first match
ScanRolesMutant(members, i, role_id) ==
    IF \E j \in i..Len(members) : IsReadOnlyRole(members[j])
    THEN LET k == CHOOSE j \in i..Len(members) :
                      /\ IsReadOnlyRole(members[j])
                      /\ \A l \in i..(j - 1) : ~IsReadOnlyRole(members[l])
         IN  [bound |-> TRUE,
              value |-> SliceFrom(members[k], rfind(members[k], "/") + 1)]
    ELSE role_id

\* for role in Members: if "readonly" in id.lower(): role_id = id[rfind("/")+1:]
\* (no break: a later match overwrites role_id)
RECURSIVE ScanRoles(_, _, _)
ScanRoles(members, i, role_id) ==
    IF i > Len(members)
    THEN role_id
    ELSE IF IsReadOnlyRole(members[i])
         THEN ScanRoles(members, i + 1,
                        [bound |-> TRUE,
                         value |-> SliceFrom(members[i],
                                             rfind(members[i], "/") + 1)])
         ELSE ScanRoles(members, i + 1, role_id)

\* the reads of the members 1..n of a collection
MemberGets(path, n) == [i \in 1..n |-> Get(path, SlotIds[i])]

----------------------------------------------------------------------------
(* The functions of user_creation.py *)

get_user_id(accounts, username) ==
    LET first == <<Get("Accounts", "")>> IN
    IF ~accounts.hasMembers
    THEN Result(first, <<>>, Raise("KeyError"))
    ELSE LET scan == ScanUser(accounts.Members, 1, username) IN
         IF scan.found
         THEN Result(first \o MemberGets("Account", scan.visited), <<>>,
                     [None EXCEPT !.kind = "id", !.exc = scan.id])
         ELSE Result(first \o MemberGets("Account", scan.visited),
                     <<"user_doesnt_exist">>, None)

\* modify_generic_account with the PATCH sent a second time
modify_generic_accountMutant(entry, redfish_obj) ==
    LET body == [NoBody EXCEPT !.keys = {"Password"},
                               !.Password = entry.new_password]
        user_id == get_user_id(redfish_obj.accounts, entry.new_user)
    IN  IF user_id.ret.kind = "raise"
        THEN user_id
        ELSE IF user_id.ret.kind = "id"
             THEN Result(user_id.reqs
                           \o <<Patch("Account", user_id.ret.exc, body,
                                      DefaultTimeout),
                                Patch("Account", user_id.ret.exc, body,
                                      DefaultTimeout)>>,
                         user_id.out, Send(redfish_obj.write))
             ELSE Result(user_id.reqs, user_id.out, None)

modify_generic_account(entry, redfish_obj) ==
    LET body == [NoBody EXCEPT !.keys = {"Password"},
                               !.Password = entry.new_password]
        user_id == get_user_id(redfish_obj.accounts, entry.new_user)
    IN  IF user_id.ret.kind = "raise"
        THEN user_id
        ELSE IF user_id.ret.kind = "id"
             THEN Result(user_id.reqs
                           \o <<Patch("Account", user_id.ret.exc, body,
                                      DefaultTimeout)>>,
                         user_id.out, Send(redfish_obj.write))
             ELSE Result(user_id.reqs, user_id.out, None)

get_dell_user_id(accounts, username) ==
    LET first == <<Get("DellAccounts", "")>> IN
    IF accounts.hasMembers
    THEN LET scan == ScanUser(accounts.Members, 1, username) IN
         IF scan.found
         THEN Result(first \o MemberGets("DellAccount", scan.visited), <<>>,
                     [None EXCEPT !.kind = "id", !.exc = scan.id])
         ELSE Result(first \o MemberGets("DellAccount", scan.visited),
                     <<"user_doesnt_exist">>, None)
    ELSE Result(first, <<>>, None)

modify_dell_account(entry, redfish_obj) ==
    LET body == [NoBody EXCEPT !.keys = {"Password"},
                               !.Password = entry.new_password]
        user_id == get_dell_user_id(redfish_obj.accounts, entry.new_user)
    IN  IF user_id.ret.kind = "id"
        THEN Result(user_id.reqs
                      \o <<Patch("DellAccount", user_id.ret.exc, body,
                                 DefaultTimeout)>>,
                    user_id.out, Send(redfish_obj.write))
        ELSE Result(user_id.reqs, user_id.out, None)

\* "hp" in manufacturer.lower()
IsHp(manufacturer) == Contains(<<"h","p">>, lower(manufacturer))

\* "dell" in manufacturer.lower()
IsDell(manufacturer) == Contains(<<"d","e","l","l">>, lower(manufacturer))

modify_accounts(sys, entry, redfish_obj) ==
    IF ~sys.hasManufacturer
    THEN Result(<<>>, <<>>, Raise("KeyError"))
    ELSE IF IsDell(sys.Manufacturer)
         THEN modify_dell_account(entry, redfish_obj)
         ELSE modify_generic_account(entry, redfish_obj)

\* if ilo_version == 5 or ilo_version == 6
HasRoleId(ilo_version) == ilo_version = 5 \/ ilo_version = 6

\* the body create_hp_account() assembles for an iLO version
HpBody(entry, ilo_version) ==
    LET body == [NoBody EXCEPT !.keys = {"UserName", "Password"},
                               !.UserName = entry.new_user,
                               !.Password = entry.new_password]
    IN  IF HasRoleId(ilo_version)
        THEN [body EXCEPT !.keys = @ \cup {"RoleId"}, !.RoleId = ReadOnly]
        ELSE [body EXCEPT !.keys = @ \cup {"Oem"},
                          !.LoginName = entry.new_user]

create_hp_account(entry, sys, redfish_obj) ==
    IF sys.link = "none"
    THEN \* manager_url is never assigned: "if manager_url" raises
         Result(<<>>, <<>>, Raise("UnboundLocalError"))
    ELSE IF sys.manager_url = ""
    THEN Result(<<Post("Accounts", HpBody(entry, 5), DefaultTimeout)>>, <<>>,
                Send(redfish_obj.write))
    ELSE LET read == <<Get("Manager", "")>>
             fw == redfish_obj.manager.FirmwareVersion
         IN  IF ~redfish_obj.manager.hasFirmwareVersion
             THEN Result(read, <<>>, Raise("KeyError"))
             ELSE IF Len(fw) < 5
             THEN Result(read, <<>>, Raise("IndexError"))
             ELSE IF ~IsDigit(fw[5])
             THEN Result(read, <<>>, Raise("ValueError"))
             ELSE Result(read \o <<Post("Accounts",
                                        HpBody(entry, DigitVal(fw[5])),
                                        DefaultTimeout)>>,
                         <<>>, Send(redfish_obj.write))

create_dell_account(body, redfish_obj) ==
    LET dell_body == [body EXCEPT !.keys = @ \cup {"RoleId"},
                                  !.RoleId = ReadOnly]
        first == <<Get("DellAccounts", "")>>
    IN  IF redfish_obj.accounts.hasMembers
        THEN LET scan == ScanFree(redfish_obj.accounts.Members, 1)
                 gets == first \o MemberGets("DellAccount", scan.visited)
             IN  IF scan.bound
                 THEN Result(gets \o <<Patch("DellAccount", scan.available_id,
                                             dell_body, ExtendedTimeout)>>,
                             <<>>, Send(redfish_obj.write))
                 ELSE \* available_id is never assigned
                      Result(gets, <<>>, Raise("UnboundLocalError"))
        ELSE \* new_account is never assigned
             Result(first, <<>>, Raise("UnboundLocalError"))

create_accounts(sys, entry, redfish_obj) ==
    IF ~sys.hasManufacturer
    THEN Result(<<>>, <<>>, Raise("KeyError"))
    ELSE IF IsHp(sys.Manufacturer)
    THEN create_hp_account(entry, sys, redfish_obj)
    ELSE LET body == [NoBody EXCEPT !.keys = {"UserName", "Password", "Enabled"},
                                    !.UserName = entry.new_user,
                                    !.Password = entry.new_password]
         IN  IF IsDell(sys.Manufacturer)
             THEN create_dell_account(body, redfish_obj)
             ELSE LET read == <<Get("Roles", "")>> IN
                  IF ~redfish_obj.roles.hasMembers
                  THEN Result(read, <<"cant_find_roles">>, None)
                  ELSE LET role_id == ScanRoles(redfish_obj.roles.Members, 1,
                                                [bound |-> FALSE, value |-> <<>>])
                       IN  IF ~role_id.bound
                           THEN Result(read, <<>>, Raise("UnboundLocalError"))
                           ELSE Result(
                                  read \o <<Post("Accounts",
                                                 [body EXCEPT
                                                    !.keys = @ \cup {"RoleId"},
                                                    !.RoleId = role_id.value],
                                                 ExtendedTimeout)>>,
                                  <<>>, Send(redfish_obj.write))

\* print_response_messages without the test of the sentinel
print_response_messagesMutant(account) ==
    IF account.kind # "None"
    THEN IF account.error_messages # <<>>
         THEN <<"not_created_error">>
         ELSE <<"success">>
    ELSE <<>>

\* the line print_response_messages() prints for a response
print_response_messages(account) ==
    IF account.kind # "None"
    THEN IF account.error_messages # <<>>
            /\ ~Contains(<<Sentinel>>, account.error_messages)
         THEN <<"not_created_error">>
         ELSE <<"success">>
    ELSE <<>>

----------------------------------------------------------------------------
(* main(): the loop over the machines of info_dict *)

Init ==
    /\ info_dict \in Descriptors
    /\ modify \in BOOLEAN
    /\ pc = "validate"
    /\ machine = 1
    /\ system_json = NoSystem
    /\ new_account = None
    /\ bmc = EmptyBMC
    /\ reqs = <<>>
    /\ issued = {}
    /\ logins = [m \in Machines |-> 0]
    /\ logouts = [m \in Machines |-> 0]
    /\ reports = <<>>
    /\ exc = ""

\* the lines printed for the current machine
Lines(out) == [i \in 1..Len(out) |-> [machine |-> machine, line |-> out[i]]]

\* next iteration of "for machine in info_dict", or the end of main()
Advance ==
    /\ machine' = machine + 1
    /\ pc' = IF machine = NumMachines THEN "done" ELSE "validate"
    /\ system_json' = NoSystem
    /\ new_account' = None
    /\ bmc' = EmptyBMC
    /\ reqs' = <<>>

\* an exception leaves main()
Abort(e) ==
    /\ pc' = "aborted"
    /\ exc' = e
    /\ UNCHANGED <<machine, system_json, new_account>>

\* lines 33-46: the keys of the current machine are checked when the loop
\* reaches it
Validate ==
    /\ pc = "validate"
    /\ IF WellFormed(info_dict[machine])
       THEN /\ pc' = "login"
            /\ UNCHANGED <<machine, system_json, new_account, exc>>
       ELSE Abort("ValueError")
    /\ UNCHANGED <<info_dict, modify, bmc, reqs, issued, logins, logouts,
                   reports>>

\* lines 48-55: the session is created
LoginOk ==
    /\ pc = "login"
    /\ logins' = [logins EXCEPT ![machine] = @ + 1]
    /\ pc' = "system"
    /\ UNCHANGED <<info_dict, modify, machine, system_json, new_account, bmc,
                   reqs, issued, logouts, reports, exc>>

\* LoginFail without the continue
LoginFailMutant(e) ==
    /\ pc = "login"
    /\ reports' = reports \o Lines(<<e>>)
    /\ pc' = "system"
    /\ UNCHANGED <<info_dict, modify, machine, system_json, new_account, bmc,
                   reqs, issued, logins, logouts, exc>>

\* lines 56-67: one of the four exceptions of the login is printed, continue
LoginFail(e) ==
    /\ pc = "login"
    /\ reports' = reports \o Lines(<<e>>)
    /\ Advance
    /\ UNCHANGED <<info_dict, modify, issued, logins, logouts, exc>>

\* lines 69-71: the Systems collection and its first member are read
ReadSystemInfo ==
    /\ pc = "system"
    /\ \E r \in SystemReads, sj \in SystemJsons :
         LET sent == IF r = "ok"
                     THEN <<Get("Systems", ""), Get("System", "")>>
                     ELSE <<Get("Systems", "")>>
         IN  /\ reqs' = reqs \o sent
             /\ issued' = issued \cup {machine}
             /\ IF r = "raises" THEN Abort("TransportError")
                ELSE IF r = "no_members" THEN Abort("IndexError")
                ELSE /\ system_json' = sj
                     /\ pc' = "provision"
                     /\ UNCHANGED <<machine, new_account, exc>>
    /\ UNCHANGED <<info_dict, modify, bmc, logins, logouts, reports>>

\* the resource a request sequence asks for first
FirstPath(rq) == IF rq = <<>> THEN "" ELSE rq[1].path

\* lines 72-73: modify_accounts() is not guarded
Modify ==
    /\ pc = "provision"
    /\ modify
    /\ \E b \in Serving(FirstPath(
                 modify_accounts(system_json, info_dict[machine], EmptyBMC).reqs)) :
       \E r \in {modify_accounts(system_json, info_dict[machine], b)} :
         /\ bmc' = b
         /\ reqs' = reqs \o r.reqs
         /\ issued' = IF r.reqs = <<>> THEN issued ELSE issued \cup {machine}
         /\ reports' = reports \o Lines(r.out)
         /\ IF r.ret.kind = "raise"
            THEN Abort(r.ret.exc)
            ELSE /\ new_account' = r.ret
                 /\ pc' = "print"
                 /\ UNCHANGED <<machine, system_json, exc>>
    /\ UNCHANGED <<info_dict, modify, logins, logouts>>

\* lines 74-80: create_accounts() under "except KeyError: print, continue"
Create ==
    /\ pc = "provision"
    /\ ~modify
    /\ \E b \in Serving(FirstPath(
                 create_accounts(system_json, info_dict[machine], EmptyBMC).reqs)) :
       \E r \in {create_accounts(system_json, info_dict[machine], b)} :
         /\ issued' = IF r.reqs = <<>> THEN issued ELSE issued \cup {machine}
         /\ IF r.ret.kind = "raise"
            THEN IF r.ret.exc = "KeyError"
                 THEN /\ reports' = reports \o Lines(r.out \o <<"key_error">>)
                      /\ Advance
                      /\ UNCHANGED exc
                 ELSE /\ reports' = reports \o Lines(r.out)
                      /\ bmc' = b
                      /\ reqs' = reqs \o r.reqs
                      /\ Abort(r.ret.exc)
            ELSE /\ reports' = reports \o Lines(r.out)
                 /\ bmc' = b
                 /\ reqs' = reqs \o r.reqs
                 /\ new_account' = r.ret
                 /\ pc' = "print"
                 /\ UNCHANGED <<machine, system_json, exc>>
    /\ UNCHANGED <<info_dict, modify, logins, logouts>>

\* lines 81-83: the response is printed, then the session is closed
PrintAndLogout ==
    /\ pc = "print"
    /\ reports' = reports \o Lines(print_response_messages(new_account))
    /\ logouts' = [logouts EXCEPT ![machine] = @ + 1]
    /\ Advance
    /\ UNCHANGED <<info_dict, modify, issued, logins, exc>>

Next ==
    \/ Validate
    \/ LoginOk
    \/ \E e \in LoginFailures : LoginFail(e)
    \/ ReadSystemInfo
    \/ Modify
    \/ Create
    \/ PrintAndLogout

Spec == Init /\ [][Next]_vars

----------------------------------------------------------------------------
(* Vocabulary of the properties *)

\* positions in reports of the lines printed for machine m
ReportsOf(m) == {i \in DOMAIN reports : reports[i].machine = m}

\* positions in a request sequence of the writes
Writes(rq) == {i \in DOMAIN rq : rq[i].verb \in {"POST", "PATCH"}}

\* create_accounts() / modify_accounts() has run on the current machine and
\* main() has not yet left it
Provisioned == pc \in {"print", "aborted"} /\ system_json.hasManufacturer

\* the login of machine m failed
LoginFailed(m) ==
    \E i \in ReportsOf(m) : reports[i].line \in LoginFailures

\* the iLO version create_hp_account() computes
IloVersion ==
    IF system_json.manager_url = "" THEN 5
    ELSE DigitVal(bmc.manager.FirmwareVersion[5])

----------------------------------------------------------------------------
(* Properties *)

\* C1: no error of a machine (session open, system-info read, classification,
\* provisioning, interpretation) ends the run: the only exception that leaves
\* main() is the ValueError of the validation.
C1_FailureContained == pc = "aborted" => exc = "ValueError"

\* C2: when the processing of a machine has ended, every session opened for it
\* has been closed exactly once.
C2_SessionClosedOnEveryExit ==
    \A m \in Machines : m < machine => logouts[m] = logins[m]

\* C3: a run that ends normally has printed exactly one line per machine.
C3_OneReportPerMachine ==
    pc = "done" => \A m \in Machines : Cardinality(ReportsOf(m)) = 1

\* C4: when an entry of the YAML, at any position, misses a required key, no
\* session is opened, no request is issued and nothing is reported, for any
\* machine.
C4_ValidationBeforeNetwork ==
    (\E m \in Machines : ~WellFormed(info_dict[m]))
        => /\ \A m \in Machines : logins[m] = 0
           /\ issued = {}
           /\ reports = <<>>

C6_DellNoFreeSlot ==
    ( /\ Provisioned
      /\ ~modify
      /\ ~IsHp(system_json.Manufacturer)
      /\ IsDell(system_json.Manufacturer)
      /\ bmc.accounts.hasMembers
      /\ \A j \in DOMAIN bmc.accounts.Members :
            ~(bmc.accounts.Members[j] = "" /\ SlotIds[j] # "1") )
        => /\ pc # "aborted"
           /\ Writes(reqs) = {}

\* C7: Create on a generic machine whose role collection has no member with
\* "readonly" in its identifier: the roles are reported as not found, no write
\* is issued and the run goes on.
C7_GenericRoleNotFound ==
    ( /\ Provisioned
      /\ ~modify
      /\ ~IsHp(system_json.Manufacturer)
      /\ ~IsDell(system_json.Manufacturer)
      /\ bmc.roles.hasMembers
      /\ \A j \in DOMAIN bmc.roles.Members :
            ~IsReadOnlyRole(bmc.roles.Members[j]) )
        => /\ pc # "aborted"
           /\ Writes(reqs) = {}
           /\ \E i \in ReportsOf(machine) : reports[i].line = "cant_find_roles"

\* C8: Create on a Dell machine: every write is a PATCH of a slot that is not
\* slot "1", has an empty UserName and is the first such slot of the table;
\* and when the table has such a slot, the write is issued.
C8_DellFirstFreeSlot ==
    ( /\ Provisioned
      /\ ~modify
      /\ ~IsHp(system_json.Manufacturer)
      /\ IsDell(system_json.Manufacturer)
      /\ bmc.accounts.hasMembers )
        => LET members == bmc.accounts.Members
               free == {j \in DOMAIN members :
                           members[j] = "" /\ SlotIds[j] # "1"}
           IN  /\ \A i \in Writes(reqs) :
                    /\ reqs[i].verb = "PATCH"
                    /\ reqs[i].path = "DellAccount"
                    /\ reqs[i].id # "1"
                    /\ \E k \in free :
                          /\ SlotIds[k] = reqs[i].id
                          /\ \A j \in free : k <= j
               /\ free # {} => Cardinality(Writes(reqs)) = 1

\* slot "1" empty and two free slots behind it: slot "2" was written
C8_Witness ==
    /\ Provisioned
    /\ ~modify
    /\ ~IsHp(system_json.Manufacturer)
    /\ IsDell(system_json.Manufacturer)
    /\ bmc.accounts.hasMembers
    /\ Len(bmc.accounts.Members) >= 3
    /\ \A j \in 1..3 : bmc.accounts.Members[j] = ""
    /\ \E i \in Writes(reqs) : reqs[i].verb = "PATCH" /\ reqs[i].id = "2"

\* C9: Create on an HP machine: the body sent for a computed iLO version of 5
\* or more has RoleId "ReadOnly" and no Oem block; for a version below 5 it
\* has the Oem block with the account name as login name, and no RoleId.
C9_HpBodyByVersion ==
    ( /\ Provisioned
      /\ ~modify
      /\ IsHp(system_json.Manufacturer) )
        => \A i \in Writes(reqs) :
              IF IloVersion >= 5
              THEN /\ "RoleId" \in reqs[i].body.keys
                   /\ reqs[i].body.RoleId = ReadOnly
                   /\ "Oem" \notin reqs[i].body.keys
              ELSE /\ "Oem" \in reqs[i].body.keys
                   /\ reqs[i].body.LoginName = info_dict[machine].new_user
                   /\ "RoleId" \notin reqs[i].body.keys

\* C10: Create on an HP machine whose system resource has neither "Links" nor
\* "links": no manager read, and exactly one POST, with RoleId "ReadOnly".
C10_HpNoLinkDefaultsTo5 ==
    ( /\ Provisioned
      /\ ~modify
      /\ IsHp(system_json.Manufacturer)
      /\ system_json.link = "none" )
        => /\ pc # "aborted"
           /\ \A i \in DOMAIN reqs : reqs[i].path # "Manager"
           /\ Cardinality(Writes(reqs)) = 1
           /\ \A i \in Writes(reqs) :
                 /\ reqs[i].verb = "POST"
                 /\ "RoleId" \in reqs[i].body.keys
                 /\ reqs[i].body.RoleId = ReadOnly

\* C11: when a provisioning write sent under the 20-second timeout raises
\* (timeout), the machine is still brought to the session close and a failure
\* is reported for it: the run does not stop there with the session open.
C11_WriteTimeoutContained ==
    ( /\ Provisioned
      /\ bmc.write.raises
      /\ \E i \in Writes(reqs) : reqs[i].timeout = ExtendedTimeout )
        => /\ pc # "aborted"
           /\ ReportsOf(machine) # {}

\* C12: Modify on a machine where no account or slot has the target name: no
\* write is issued, the failure is reported for the machine and the run goes
\* on.
C12_ModifyAccountNotFound ==
    ( /\ Provisioned
      /\ modify
      /\ \A j \in DOMAIN bmc.accounts.Members :
            bmc.accounts.Members[j] # info_dict[machine].new_user )
        => /\ Writes(reqs) = {}
           /\ pc # "aborted"
           /\ \E i \in ReportsOf(machine) :
                 reports[i].line = "user_doesnt_exist"

\* positions in a request sequence of the reads of a role, account or slot
\* collection
CollectionReads(rq) ==
    {i \in DOMAIN rq : /\ rq[i].verb = "GET"
                       /\ rq[i].path \in {"Roles", "Accounts", "DellAccounts"}}

\* C13: to every machine at most one write is issued, it is the last request
\* and comes after the one read of the role, account or slot collection (at
\* most one such read is issued), and no request is issued twice.
C13_OneReadThenOneWrite ==
    /\ Cardinality(Writes(reqs)) <= 1
    /\ Cardinality(CollectionReads(reqs)) <= 1
    /\ \A w \in Writes(reqs) :
          /\ w = Len(reqs)
          /\ \A c \in CollectionReads(reqs) : c < w
    /\ \A i, j \in DOMAIN reqs : i # j => reqs[i] # reqs[j]

\* a collection was read, its members scanned and one write issued
C13_Witness ==
    /\ pc = "print"
    /\ Cardinality(CollectionReads(reqs)) = 1
    /\ Cardinality(Writes(reqs)) = 1
    /\ Len(reqs) >= 5

\* the vendor of a manufacturer string: "hp" first, then "dell", else generic
Classify(manufacturer) ==
    IF IsHp(manufacturer) THEN "HP"
    ELSE IF IsDell(manufacturer) THEN "Dell"
    ELSE "Generic"

\* C14: the strategy a machine is provisioned with is the one of its vendor,
\* in both modes: HP machines (a manufacturer with both "hp" and "dell"
\* included) take the HP path in Create and the generic path in Modify, Dell
\* machines the Dell path, all others the generic path. The strategy shows in
\* the first request after the two reads of main().
C14_ClassificationGovernsBothModes ==
    (Provisioned /\ Len(reqs) >= 3)
        => LET first == reqs[3]
               vendor == Classify(system_json.Manufacturer)
           IN  CASE vendor = "HP" ->
                      IF modify
                      THEN first = Get("Accounts", "")
                      ELSE first = Get("Manager", "") \/ first.verb = "POST"
                 [] vendor = "Dell" -> first = Get("DellAccounts", "")
                 [] OTHER ->
                      IF modify
                      THEN first = Get("Accounts", "")
                      ELSE first = Get("Roles", "")

\* C15: Modify on a machine where an account or slot has the target name:
\* exactly one write is issued, a PATCH of the first such account in scan
\* order, and its body carries the new password and nothing else.
C15_ModifyPatchesFirstMatch ==
    ( /\ Provisioned
      /\ modify
      /\ \E j \in DOMAIN bmc.accounts.Members :
            bmc.accounts.Members[j] = info_dict[machine].new_user )
        => LET members == bmc.accounts.Members
               matches == {j \in DOMAIN members :
                              members[j] = info_dict[machine].new_user}
           IN  /\ Cardinality(Writes(reqs)) = 1
               /\ \A i \in Writes(reqs) :
                     /\ reqs[i].verb = "PATCH"
                     /\ reqs[i].path \in {"Account", "DellAccount"}
                     /\ \E k \in matches :
                           /\ reqs[i].id = SlotIds[k]
                           /\ \A j \in matches : k <= j
                     /\ reqs[i].body.keys = {"Password"}
                     /\ reqs[i].body.Password = info_dict[machine].new_password

\* two accounts with the target name behind another one: the first of the two
\* was patched
C15_Witness ==
    /\ Provisioned
    /\ modify
    /\ Len(bmc.accounts.Members) >= 3
    /\ bmc.accounts.Members[1] = "root"
    /\ bmc.accounts.Members[2] = info_dict[machine].new_user
    /\ bmc.accounts.Members[3] = info_dict[machine].new_user
    /\ \E i \in Writes(reqs) : reqs[i].verb = "PATCH" /\ reqs[i].id = "2"

\* the name of a role of RoleMembers: what follows "/Roles/"
RoleName(odata_id) == SubSeq(odata_id, 8, Len(odata_id))

\* the members of the role collection of the current machine with "readonly"
\* in their identifier
ReadOnlyRoles ==
    {j \in DOMAIN bmc.roles.Members : IsReadOnlyRole(bmc.roles.Members[j])}

\* Create on a generic machine whose role collection was read
GenericCreate ==
    /\ Provisioned
    /\ ~modify
    /\ ~IsHp(system_json.Manufacturer)
    /\ ~IsDell(system_json.Manufacturer)
    /\ bmc.roles.hasMembers

\* C16 as claimed: with several readonly roles, the RoleId of the create body
\* is taken from the first of them in scan order.
C16_FirstMatchingRole ==
    (GenericCreate /\ Cardinality(ReadOnlyRoles) >= 2)
        => \A i \in Writes(reqs) :
              \E k \in ReadOnlyRoles :
                 /\ \A j \in ReadOnlyRoles : k <= j
                 /\ reqs[i].body.RoleId = RoleName(bmc.roles.Members[k])

\* C16 as amended: with one or several readonly roles, one POST is issued and
\* the RoleId of its body is taken from the last of them in scan order.
C16_LastMatchingRole ==
    (GenericCreate /\ ReadOnlyRoles # {})
        => /\ Cardinality(Writes(reqs)) = 1
           /\ \A i \in Writes(reqs) :
                 /\ reqs[i].verb = "POST"
                 /\ "RoleId" \in reqs[i].body.keys
                 /\ \E k \in ReadOnlyRoles :
                       /\ \A j \in ReadOnlyRoles : j <= k
                       /\ reqs[i].body.RoleId = RoleName(bmc.roles.Members[k])

\* two readonly roles, ReadOnly before READONLY_U: the POST carries READONLY_U
C16_Witness ==
    /\ GenericCreate
    /\ bmc.roles.Members = <<RoleReadOnly, RoleReadOnlyUser>>
    /\ \E i \in Writes(reqs) :
          reqs[i].body.RoleId = <<"R","E","A","D","O","N","L","Y","_","U">>

\* C17: a POST is issued only in Create mode to machines classified generic or
\* HP, and it goes to the accounts collection; the write of a Dell Create and
\* of every Modify is a PATCH of one account or slot resource.
C17_WriteVerbPerStrategy ==
    Provisioned
        => \A i \in Writes(reqs) :
              IF ~modify /\ Classify(system_json.Manufacturer) # "Dell"
              THEN /\ reqs[i].verb = "POST"
                   /\ reqs[i].path = "Accounts"
                   /\ reqs[i].id = ""
              ELSE /\ reqs[i].verb = "PATCH"
                   /\ reqs[i].path \in {"Account", "DellAccount"}
                   /\ reqs[i].id # ""

\* a Dell Create that wrote a slot
C17_Witness ==
    /\ pc = "print"
    /\ ~modify
    /\ system_json.hasManufacturer
    /\ Classify(system_json.Manufacturer) = "Dell"
    /\ \E i \in Writes(reqs) :
          reqs[i].verb = "PATCH" /\ reqs[i].path = "DellAccount"

\* C18: the step that interprets a write response reports the machine as
\* success when the extracted text is empty or has the sentinel in it, and as
\* not created otherwise; it closes the session and moves to the next machine,
\* it never ends the run.
C18_ResponseInterpretation ==
    [][ (pc = "print" /\ new_account.kind = "response")
          => LET text == new_account.error_messages
                 ok == \/ text = <<>>
                       \/ \E i \in DOMAIN text : text[i] = Sentinel
             IN  /\ reports' =
                       Append(reports,
                              [machine |-> machine,
                               line |-> IF ok THEN "success"
                                        ELSE "not_created_error"])
                 /\ logouts'[machine] = logouts[machine] + 1
                 /\ machine' = machine + 1
                 /\ pc' \in {"validate", "done"} ]_vars

\* the first machine was reported as not created, and the response of the
\* second, an error text with the sentinel in it, is about to be interpreted
C18_Witness ==
    /\ pc = "print"
    /\ machine = 2
    /\ new_account.kind = "response"
    /\ new_account.error_messages =
          <<"Base.1.0.PropertyValueNotInList", Sentinel>>
    /\ \E i \in ReportsOf(1) : reports[i].line = "not_created_error"

\* positions in a request sequence of the writes to the Dell slot "1"
Slot1Writes(rq) ==
    {i \in Writes(rq) : rq[i].path = "DellAccount" /\ rq[i].id = "1"}

\* C19 as claimed: no write, in Create or in Modify mode, targets the Dell
\* slot "1".
C19_NoWriteToSlot1 == Slot1Writes(reqs) = {}

\* C19 as amended: no write of Create mode targets the Dell slot "1"; a write
\* of Modify mode targets it only when the UserName of slot "1" is the target
\* account name.
C19_Slot1OnlyByName ==
    Slot1Writes(reqs) # {}
        => /\ modify
           /\ bmc.accounts.hasMembers
           /\ Len(bmc.accounts.Members) >= 1
           /\ bmc.accounts.Members[1] = info_dict[machine].new_user

\* a Dell Modify whose target name is the UserName of slot "1", behind which
\* another slot has that name too: slot "1" was patched
C19_Witness ==
    /\ Provisioned
    /\ modify
    /\ IsDell(system_json.Manufacturer)
    /\ bmc.accounts.hasMembers
    /\ Len(bmc.accounts.Members) >= 2
    /\ bmc.accounts.Members[1] = info_dict[machine].new_user
    /\ bmc.accounts.Members[2] = info_dict[machine].new_user
    /\ Slot1Writes(reqs) # {}

====
